---- MODULE Spec2Model ----
(***************************************************************************)
(* Data-quality validation of the portfolio data (dataQualityValidator):   *)
(* validateDataQuality and deduplicateData over a PortfolioData snapshot.  *)
(*                                                                         *)
(* An entity is modelled by the fields the validator reads: its id, a      *)
(* company's status, a project's partners/technologies/modules lists, an   *)
(* integration's source, target and projects list.  Display names are not  *)
(* modelled; the `message` of an error or warning is modelled by the tuple *)
(* of the ids the template string interpolates.                            *)
(***************************************************************************)
EXTENDS Integers, Sequences, FiniteSets

\* the validator: the snapshot passed in, the report returned by
\* validateDataQuality, the snapshot returned by deduplicateData, and which
\* call has returned
VARIABLES data, report, output, pc

engineVars == <<data, report, output, pc>>

\* entityIdSchema: the string handed to safeParse and what it returned
VARIABLES idInput, idResult

schemaVars == <<idInput, idResult>>

\* useAdminData: the backend collections (store), the hook's state (lists,
\* isLoading, isRefreshing, qualityReport, lastError), the getAll requests in
\* the stats memo of the last render (stats), the create/update/delete call
\* in flight (call), what the
\* last finished call returned, the id the backend gives the next document,
\* and the number of create/update/delete calls made
VARIABLES store, lists, isLoading, isRefreshing, qualityReport, lastError,
          stats, loads, call, returned, nextId, calls

adminVars == <<store, lists, isLoading, isRefreshing, qualityReport, lastError,
               stats, loads, call, returned, nextId, calls>>

\* firebaseService: whether Firebase is configured, the documents of the
\* 'projects' collection, the getProjects calls in progress, and the next id
\* that doc(collection(...)) generates
VARIABLES isFirebaseEnabled, firestore, getProjectsCalls, freshId

serviceVars == <<isFirebaseEnabled, firestore, getProjectsCalls, freshId>>

\* useProjects: the hook's state (siteProjects is its projects), and the
\* snapshot that its subscription delivers
VARIABLES siteProjects, loading, error, snapshot

siteVars == <<siteProjects, loading, error, snapshot>>

vars == <<engineVars, schemaVars, adminVars, serviceVars, siteVars>>

(***************************************************************************)
(* Bounds of the input snapshots.                                          *)
(***************************************************************************)
\* size of a snapshot: the number of entities over its five collections plus
\* the number of entries over its reference lists (projects' partners,
\* technologies and modules, integrations' projects)
MaxSize == 4

\* identifiers accepted by entityIdSchema; "system" is the literal that
\* validateRef exempts
Ids == {"system", "acme"}

CompanyStatus == {"active", "inactive", "mentioned"}

(***************************************************************************)
(* The schema types.                                                       *)
(***************************************************************************)
Company == [id : Ids, status : CompanyStatus]

Technology == [id : Ids]

Module == [id : Ids]

\* the scalar part of an integration
IntegrationCore == [id : Ids, source : Ids, target : Ids]

SeqsOfLen(S, n) == [1..n -> S]

SeqsUpTo(S, n) == UNION {SeqsOfLen(S, k) : k \in 0..n}

\* k reference lists holding at most r ids in total
RECURSIVE RefLists(_, _)
RefLists(k, r) ==
    IF k = 0 THEN {<<>>}
    ELSE UNION {{<<l>> \o rest : rest \in RefLists(k - 1, r - Len(l))} :
                    l \in SeqsUpTo(Ids, r)}

\* numbers of companies, technologies, modules, projects, integrations
Shapes ==
    {s \in [1..5 -> 0..MaxSize] : s[1] + s[2] + s[3] + s[4] + s[5] <= MaxSize}

DataProject(id, refs, i) ==
    [id |-> id,
     partners |-> refs[3 * (i - 1) + 1],
     technologies |-> refs[3 * (i - 1) + 2],
     modules |-> refs[3 * (i - 1) + 3]]

Integration(core, refs, np, i) ==
    [id |-> core.id, source |-> core.source, target |-> core.target,
     projects |-> refs[3 * np + i]]

\* the parts of a snapshot besides its five collections
ProjectMetadata ==
    [name |-> "portfolio", version |-> "v1", lastUpdated |-> "today",
     description |-> "portfolio data"]

Relationships ==
    [companyTechnologies |-> <<>>, projectModules |-> <<>>,
     technologyDependencies |-> <<>>]

DataQuality ==
    [validationRules |-> <<>>, lastValidated |-> "today", validationStatus |-> "passed"]

PortfolioData(cs, ts, ms, pids, ics, refs) ==
    [projectMetadata |-> ProjectMetadata,
     entities |-> [companies |-> cs, technologies |-> ts, modules |-> ms],
     relationships |-> Relationships,
     dataQuality |-> DataQuality,
     projects |-> [i \in 1..Len(pids) |-> DataProject(pids[i], refs, i)],
     integrations |-> [i \in 1..Len(ics) |-> Integration(ics[i], refs, Len(pids), i)]]

(***************************************************************************)
(* entityIdSchema: z.string().min(1).regex(/^[a-z0-9_-]+$/)                *)
(*                  .transform(val => val.toLowerCase().trim()).           *)
(* A string is a sequence of characters.  zod runs the checks of the       *)
(* string on the input as given, and the transform only on an input that   *)
(* passed them.                                                            *)
(***************************************************************************)
\* longest input string
MaxIdLen == 3

\* a lowercase letter, an uppercase letter, a digit, the two punctuation
\* characters of the pattern, a blank and a character outside the pattern
Chars == {"a", "A", "7", "_", "-", " ", "!"}

IdStrings == SeqsUpTo(Chars, MaxIdLen)

\* the character class [a-z0-9_-]
inIdClass(ch) == ch \in {"a", "7", "_", "-"}

\* String.prototype.toLowerCase
toLowerCase(str) == [i \in DOMAIN str |-> IF str[i] = "A" THEN "a" ELSE str[i]]

isWhiteSpace(ch) == ch = " "

\* String.prototype.trim
RECURSIVE trimStart(_)
trimStart(str) ==
    IF str # <<>> /\ isWhiteSpace(Head(str)) THEN trimStart(Tail(str)) ELSE str

RECURSIVE trimEnd(_)
trimEnd(str) ==
    IF str # <<>> /\ isWhiteSpace(str[Len(str)])
        THEN trimEnd(SubSeq(str, 1, Len(str) - 1))
        ELSE str

trim(str) == trimEnd(trimStart(str))

\* .min(1, 'ID cannot be empty')
minLength1(str) == Len(str) >= 1

\* .regex(/^[a-z0-9_-]+$/, ...)
matchesIdPattern(str) == Len(str) >= 1 /\ \A i \in DOMAIN str : inIdClass(str[i])

\* .transform(val => val.toLowerCase().trim())
idTransform(str) == trim(toLowerCase(str))

\* entityIdSchema.safeParse(str)
entityIdSchema(str) ==
    IF minLength1(str) /\ matchesIdPattern(str)
        THEN [success |-> TRUE, data |-> idTransform(str)]
        ELSE [success |-> FALSE, data |-> <<>>]

NotParsed == [success |-> FALSE, data |-> <<"?">>]

(***************************************************************************)
(* The report.                                                             *)
(***************************************************************************)
\* a report that starts out invalid
EmptyReportInvalid ==
    [isValid |-> FALSE,
     errors |-> <<>>,
     warnings |-> <<>>,
     stats |-> [totalEntities |-> 0, duplicates |-> 0,
                brokenReferences |-> 0, unusedEntities |-> 0]]

\* const report: DataQualityReport = { isValid: true, errors: [], ... }
EmptyReport ==
    [isValid |-> TRUE,
     errors |-> <<>>,
     warnings |-> <<>>,
     stats |-> [totalEntities |-> 0, duplicates |-> 0,
                brokenReferences |-> 0, unusedEntities |-> 0]]

\* report.errors.push(...); report.stats.duplicates++; report.isValid = false
pushDuplicate(r, entityType, id) ==
    [r EXCEPT !.errors = Append(@, [type |-> "duplicate", entity |-> entityType,
                                    field |-> "id", message |-> <<id>>,
                                    value |-> id]),
              !.stats.duplicates = @ + 1,
              !.isValid = FALSE]

\* the loop without its ids.add(entity.id)
addSeenForgotten(ids, id) == ids

\* ids.add(entity.id)
addSeen(ids, id) == ids \cup {id}

RECURSIVE checkDuplicatesFrom(_, _, _, _, _)
checkDuplicatesFrom(entities, entityType, i, ids, r) ==
    IF i > Len(entities) THEN r
    ELSE checkDuplicatesFrom(entities, entityType, i + 1,
                             addSeen(ids, entities[i].id),
                             IF entities[i].id \in ids
                                 THEN pushDuplicate(r, entityType, entities[i].id)
                                 ELSE r)

\* the total counting distinct ids instead of entities
addTotalDistinct(r, entities) ==
    [r EXCEPT !.stats.totalEntities =
                  @ + Cardinality({entities[i].id : i \in DOMAIN entities})]

\* report.stats.totalEntities += entities.length
addTotal(r, entities) == [r EXCEPT !.stats.totalEntities = @ + Len(entities)]

checkDuplicates(entities, entityType, r) ==
    addTotal(checkDuplicatesFrom(entities, entityType, 1, {}, r), entities)

\* the id set built from the ids that passed the duplicate check
idSetOfUnique(entities) ==
    {entities[i].id : i \in {k \in DOMAIN entities :
                                 \A j \in DOMAIN entities :
                                     entities[j].id = entities[k].id => j = k}}

\* new Set(collection.map(e => e.id))
idSet(entities) == {entities[i].id : i \in DOMAIN entities}

\* a push that leaves the counter as it is
pushMissingReferenceUncounted(r, entityType, field, message, value) ==
    [r EXCEPT !.errors = Append(@, [type |-> "missing_reference",
                                    entity |-> entityType, field |-> field,
                                    message |-> message, value |-> value]),
              !.isValid = FALSE]

\* report.errors.push(...); report.stats.brokenReferences++; report.isValid = false
pushMissingReference(r, entityType, field, message, value) ==
    [r EXCEPT !.errors = Append(@, [type |-> "missing_reference",
                                    entity |-> entityType, field |-> field,
                                    message |-> message, value |-> value]),
              !.stats.brokenReferences = @ + 1,
              !.isValid = FALSE]

\* list?.forEach(id => { if (!known.has(id)) { push ... } }) of a project's
\* partners, technologies or modules list, or of an integration's projects
\* list; owner is what the message names besides the missing id
RECURSIVE validateListFrom(_, _, _, _, _, _, _)
validateListFrom(list, i, known, entityType, field, owner, r) ==
    IF i > Len(list) THEN r
    ELSE validateListFrom(list, i + 1, known, entityType, field, owner,
                          IF list[i] \notin known
                              THEN pushMissingReference(r, entityType, field,
                                                        owner \o <<list[i]>>, list[i])
                              ELSE r)

\* the technologies list checked against the company ids
validateProjectMixedUp(project, companyIds, techIds, moduleIds, r) ==
    LET r1 == validateListFrom(project.partners, 1, companyIds,
                               "projects", "partners", <<>>, r)
        r2 == validateListFrom(project.technologies, 1, companyIds,
                               "projects", "technologies", <<>>, r1)
    IN  validateListFrom(project.modules, 1, moduleIds,
                         "projects", "modules", <<>>, r2)

validateProject(project, companyIds, techIds, moduleIds, r) ==
    LET r1 == validateListFrom(project.partners, 1, companyIds,
                               "projects", "partners", <<>>, r)
        r2 == validateListFrom(project.technologies, 1, techIds,
                               "projects", "technologies", <<>>, r1)
    IN  validateListFrom(project.modules, 1, moduleIds,
                         "projects", "modules", <<>>, r2)

RECURSIVE validateProjectsFrom(_, _, _, _, _, _)
validateProjectsFrom(projects, i, companyIds, techIds, moduleIds, r) ==
    IF i > Len(projects) THEN r
    ELSE validateProjectsFrom(projects, i + 1, companyIds, techIds, moduleIds,
                              validateProject(projects[i], companyIds, techIds,
                                              moduleIds, r))

\* the check without the exemption of "system"
isBrokenRefNoSystem(refId, techIds, moduleIds) ==
    refId \notin techIds /\ refId \notin moduleIds

\* refId !== 'system' && !techIds.has(refId) && !moduleIds.has(refId)
isBrokenRef(refId, techIds, moduleIds) ==
    refId # "system" /\ refId \notin techIds /\ refId \notin moduleIds

validateRef(integration, refId, field, techIds, moduleIds, r) ==
    IF isBrokenRef(refId, techIds, moduleIds)
        THEN pushMissingReference(r, "integrations", field,
                                  <<integration.id, refId>>, refId)
        ELSE r

\* the projects list checked up to its first missing entry only
validateIntegrationProjectsFirstOnly(integration, projectIds, r) ==
    LET missing == {j \in DOMAIN integration.projects :
                        integration.projects[j] \notin projectIds}
    IN  IF missing = {} THEN r
        ELSE LET j == CHOOSE m \in missing : \A n \in missing : m <= n
             IN  pushMissingReference(r, "integrations", "projects",
                                      <<integration.id, integration.projects[j]>>,
                                      integration.projects[j])

validateIntegrationProjects(integration, projectIds, r) ==
    validateListFrom(integration.projects, 1, projectIds,
                     "integrations", "projects", <<integration.id>>, r)

validateIntegration(integration, techIds, moduleIds, projectIds, r) ==
    LET r1 == validateRef(integration, integration.source, "source",
                          techIds, moduleIds, r)
        r2 == validateRef(integration, integration.target, "target",
                          techIds, moduleIds, r1)
    IN  validateIntegrationProjects(integration, projectIds, r2)

RECURSIVE validateIntegrationsFrom(_, _, _, _, _, _)
validateIntegrationsFrom(integrations, i, techIds, moduleIds, projectIds, r) ==
    IF i > Len(integrations) THEN r
    ELSE validateIntegrationsFrom(integrations, i + 1, techIds, moduleIds, projectIds,
                                  validateIntegration(integrations[i], techIds,
                                                      moduleIds, projectIds, r))

\* the ids a forEach over the listed field of every project adds to a set
listedIn(projects, field) ==
    UNION {{projects[i][field][j] : j \in DOMAIN projects[i][field]} :
               i \in DOMAIN projects}

\* the source and the target of every integration
integrationEnds(integrations) ==
    {integrations[i].source : i \in DOMAIN integrations} \cup
    {integrations[i].target : i \in DOMAIN integrations}

\* the used technologies without the integrations' sources and targets
usedTechIdsOfProjects(d) == listedIn(d.projects, "technologies")

\* projects' technologies, and integrations' sources and targets other than
\* 'system'
usedTechIds(d) ==
    listedIn(d.projects, "technologies") \cup (integrationEnds(d.integrations) \ {"system"})

\* the used modules with the integrations' sources and targets
usedModuleIdsWithEnds(d) ==
    listedIn(d.projects, "modules") \cup (integrationEnds(d.integrations) \ {"system"})

usedModuleIds(d) == listedIn(d.projects, "modules")

usedCompanyIds(d) == listedIn(d.projects, "partners")

\* a warning that also clears isValid
pushUnusedInvalid(r, entityType, id) ==
    [r EXCEPT !.warnings = Append(@, [type |-> "unused_entity", entity |-> entityType,
                                      message |-> <<id>>]),
              !.stats.unusedEntities = @ + 1,
              !.isValid = FALSE]

\* report.warnings.push(...); report.stats.unusedEntities++
pushUnused(r, entityType, id) ==
    [r EXCEPT !.warnings = Append(@, [type |-> "unused_entity", entity |-> entityType,
                                      message |-> <<id>>]),
              !.stats.unusedEntities = @ + 1]

isUnusedTechnology(tech, used) == tech.id \notin used

isUnusedModule(module, used) == module.id \notin used

\* the check without the status test
isUnusedCompanyAnyStatus(company, used) == company.id \notin used

isUnusedCompany(company, used) == company.status = "active" /\ company.id \notin used

isUnused(entityType, entity, used) ==
    CASE entityType = "technologies" -> isUnusedTechnology(entity, used)
      [] entityType = "modules" -> isUnusedModule(entity, used)
      [] entityType = "companies" -> isUnusedCompany(entity, used)

RECURSIVE checkUnusedFrom(_, _, _, _, _)
checkUnusedFrom(entities, entityType, i, used, r) ==
    IF i > Len(entities) THEN r
    ELSE checkUnusedFrom(entities, entityType, i + 1, used,
                         IF isUnused(entityType, entities[i], used)
                             THEN pushUnused(r, entityType, entities[i].id)
                             ELSE r)

validateDataQuality(d) ==
    LET r1 == checkDuplicates(d.entities.companies, "companies", EmptyReport)
        r2 == checkDuplicates(d.entities.technologies, "technologies", r1)
        r3 == checkDuplicates(d.entities.modules, "modules", r2)
        r4 == checkDuplicates(d.projects, "projects", r3)
        r5 == checkDuplicates(d.integrations, "integrations", r4)
        companyIds == idSet(d.entities.companies)
        techIds == idSet(d.entities.technologies)
        moduleIds == idSet(d.entities.modules)
        projectIds == idSet(d.projects)
        r6 == validateProjectsFrom(d.projects, 1, companyIds, techIds, moduleIds, r5)
        r7 == validateIntegrationsFrom(d.integrations, 1, techIds, moduleIds,
                                       projectIds, r6)
        r8 == checkUnusedFrom(d.entities.technologies, "technologies", 1,
                              usedTechIds(d), r7)
        r9 == checkUnusedFrom(d.entities.modules, "modules", 1, usedModuleIds(d), r8)
    IN  checkUnusedFrom(d.entities.companies, "companies", 1, usedCompanyIds(d), r9)

(***************************************************************************)
(* deduplicateData.                                                        *)
(***************************************************************************)
\* entities.filter(entity => { if (seen.has(entity.id)) return false;
\*                             seen.add(entity.id); return true })
RECURSIVE deduplicateFrom(_, _, _)
deduplicateFrom(entities, i, seen) ==
    IF i > Len(entities) THEN <<>>
    ELSE IF entities[i].id \in seen
        THEN deduplicateFrom(entities, i + 1, seen)
        ELSE <<entities[i]>> \o deduplicateFrom(entities, i + 1, seen \cup {entities[i].id})

\* a filter that keeps the last entry of each id
RECURSIVE deduplicateKeepLastFrom(_, _)
deduplicateKeepLastFrom(entities, i) ==
    IF i > Len(entities) THEN <<>>
    ELSE IF \E j \in (i + 1)..Len(entities) : entities[j].id = entities[i].id
        THEN deduplicateKeepLastFrom(entities, i + 1)
        ELSE <<entities[i]>> \o deduplicateKeepLastFrom(entities, i + 1)

deduplicateKeepLast(entities) == deduplicateKeepLastFrom(entities, 1)

\* a filter whose set forgets an id once it has dropped an entry for it
RECURSIVE deduplicateTogglingFrom(_, _, _)
deduplicateTogglingFrom(entities, i, seen) ==
    IF i > Len(entities) THEN <<>>
    ELSE IF entities[i].id \in seen
        THEN deduplicateTogglingFrom(entities, i + 1, seen \ {entities[i].id})
        ELSE <<entities[i]>>
             \o deduplicateTogglingFrom(entities, i + 1, seen \cup {entities[i].id})

deduplicateToggling(entities) == deduplicateTogglingFrom(entities, 1, {})

\* a filter that drops nothing
deduplicateNothing(entities) == entities

deduplicate(entities) == deduplicateFrom(entities, 1, {})

\* a result that is marked for a new validation
deduplicateDataRevalidate(d) ==
    [d EXCEPT !.entities = [companies |-> deduplicate(d.entities.companies),
                            technologies |-> deduplicate(d.entities.technologies),
                            modules |-> deduplicate(d.entities.modules)],
              !.projects = deduplicate(d.projects),
              !.integrations = deduplicate(d.integrations),
              !.dataQuality.validationStatus = "pending"]

\* { ...data, entities: {...}, projects: ..., integrations: ... }
deduplicateData(d) ==
    [d EXCEPT !.entities = [companies |-> deduplicate(d.entities.companies),
                            technologies |-> deduplicate(d.entities.technologies),
                            modules |-> deduplicate(d.entities.modules)],
              !.projects = deduplicate(d.projects),
              !.integrations = deduplicate(d.integrations)]

\* a deduplication that removes the entries from the arrays passed in
argumentAfterDeduplicateInPlace(d) == deduplicateData(d)

\* the argument after the call: filter and the spread build new arrays and a
\* new object, nothing is assigned into the argument
argumentAfterDeduplicate(d) == d

\* new Set(report.warnings.filter(w => w.type === 'unused_entity')
\*                        .map(w => w.entity))
unusedIds(r) ==
    {r.warnings[i].entity : i \in {j \in DOMAIN r.warnings : r.warnings[j].type = "unused_entity"}}

\* optimizeData(data, removeUnused): the report and the set are computed and
\* not used; both paths return the argument
optimizeData(d, removeUnused) ==
    IF ~removeUnused THEN d
    ELSE LET optimizeReport == validateDataQuality(d)
             unused == unusedIds(optimizeReport)
         IN  d

(***************************************************************************)
(* useAdminData.  A document is modelled by its id and the field the       *)
(* quality check reads: a project's title, a skill's name; an experience   *)
(* has its company.  Toasts are not modelled.                              *)
(***************************************************************************)
\* documents in the backend when the hook is mounted, all kinds together
MaxDocs == 2
\* create, update and delete calls made by the user
MaxCalls == 1

Kinds == {"projects", "skills", "experiences"}

\* titles and names: two that differ in case only
Titles == {"X", "x"}

Names == {"X", "x"}

Companies == {"acme"}

LabelsOf(kind) ==
    CASE kind = "projects" -> Titles
      [] kind = "skills" -> Names
      [] kind = "experiences" -> Companies

labelOf(kind, doc) ==
    CASE kind = "projects" -> doc.title
      [] kind = "skills" -> doc.name
      [] kind = "experiences" -> doc.company

makeDoc(kind, id, label) ==
    CASE kind = "projects" -> [id |-> id, title |-> label]
      [] kind = "skills" -> [id |-> id, name |-> label]
      [] kind = "experiences" -> [id |-> id, company |-> label]

\* useState<DataQualityReport | null>(null): no report, or <<report>>
NoReport == <<>>

NoCall == [op |-> "none", kind |-> "none", id |-> 0, label |-> "none", phase |-> "idle"]

NoReturn == [op |-> "none", ok |-> FALSE, id |-> 0]

\* const report = { isValid: true, errors: [], warnings: [],
\*                  stats: { totalEntities: projects.length + skills.length
\*                           + experiences.length, duplicates: 0, ... } }
initialQualityReport(ps, ss, es) ==
    [isValid |-> TRUE,
     errors |-> <<>>,
     warnings |-> <<>>,
     stats |-> [totalEntities |-> Len(ps) + Len(ss) + Len(es), duplicates |-> 0,
                brokenReferences |-> 0, unusedEntities |-> 0]]

\* the keys of the Map filled by
\* values.forEach(v => map.set(v, (map.get(v) || 0) + 1)), in insertion order
RECURSIVE mapKeysFrom(_, _, _)
mapKeysFrom(values, i, seen) ==
    IF i > Len(values) THEN <<>>
    ELSE IF values[i] \in seen
        THEN mapKeysFrom(values, i + 1, seen)
        ELSE <<values[i]>> \o mapKeysFrom(values, i + 1, seen \cup {values[i]})

\* the count the Map holds for a key
mapCount(values, key) == Cardinality({i \in DOMAIN values : values[i] = key})

\* a warning that counts every extra occurrence
pushDuplicateWarningPerEntry(r, entityType, key, count) ==
    [r EXCEPT !.warnings = Append(@, [type |-> "unused_entity", entity |-> entityType,
                                      message |-> <<key, count>>]),
              !.stats.duplicates = @ + (count - 1)]

\* report.warnings.push({ type: 'unused_entity', entity, message });
\* report.stats.duplicates++
pushDuplicateWarning(r, entityType, key, count) ==
    [r EXCEPT !.warnings = Append(@, [type |-> "unused_entity", entity |-> entityType,
                                      message |-> <<key, count>>]),
              !.stats.duplicates = @ + 1]

\* map.forEach((count, key) => { if (count > 1) { ... } })
RECURSIVE warnDuplicatesFrom(_, _, _, _, _)
warnDuplicatesFrom(keys, i, values, entityType, r) ==
    IF i > Len(keys) THEN r
    ELSE warnDuplicatesFrom(keys, i + 1, values, entityType,
                            IF mapCount(values, keys[i]) > 1
                                THEN pushDuplicateWarning(r, entityType, keys[i],
                                                          mapCount(values, keys[i]))
                                ELSE r)

labelsOf(kind, docs) == [i \in DOMAIN docs |-> labelOf(kind, docs[i])]

\* the report that runQualityCheck hands to setQualityReport, from the
\* projects, skills and experiences its closure holds
runQualityCheck(ps, ss, es) ==
    LET projectTitles == labelsOf("projects", ps)
        skillNames == labelsOf("skills", ss)
        r1 == warnDuplicatesFrom(mapKeysFrom(projectTitles, 1, {}), 1, projectTitles,
                                 "projects", initialQualityReport(ps, ss, es))
    IN  warnDuplicatesFrom(mapKeysFrom(skillNames, 1, {}), 1, skillNames, "skills", r1)

Max(a, b) == IF a >= b THEN a ELSE b

Min(a, b) == IF a <= b THEN a ELSE b

\* a score that is not clamped from below
dataQualityScoreUnclamped(qr) ==
    IF qr = NoReport THEN 100
    ELSE Min(100, 100 - qr[1].stats.duplicates * 10
                      - qr[1].stats.brokenReferences * 15
                      - qr[1].stats.unusedEntities * 2)

\* stats.dataQualityScore of the stats memo
dataQualityScore(qr) ==
    IF qr = NoReport THEN 100
    ELSE LET q1 == 100 - qr[1].stats.duplicates * 10
             q2 == q1 - qr[1].stats.brokenReferences * 15
             q3 == q2 - qr[1].stats.unusedEntities * 2
         IN  Max(0, Min(100, q3))

\* the stats memo of a render: the counts and the score
statsMemo(ls, qr) ==
    [totalProjects |-> Len(ls.projects),
     totalSkills |-> Len(ls.skills),
     totalExperiences |-> Len(ls.experiences),
     dataQualityScore |-> dataQualityScore(qr)]

\* the lists held by the closures of the first render: useState([])
firstRenderLists == [projects |-> <<>>, skills |-> <<>>, experiences |-> <<>>]

\* the state of the hook before it is mounted, over an empty backend
AdminUnmounted ==
    /\ store = [projects |-> <<>>, skills |-> <<>>, experiences |-> <<>>]
    /\ lists = firstRenderLists
    /\ isLoading = [projects |-> TRUE, skills |-> TRUE, experiences |-> TRUE]
    /\ isRefreshing = FALSE
    /\ qualityReport = NoReport
    /\ lastError = "null"
    /\ stats = statsMemo(lists, qualityReport)
    /\ loads = {}
    /\ call = NoCall
    /\ returned = NoReturn
    /\ nextId = 1
    /\ calls = 0

(***************************************************************************)
(* firebaseService.getProjects and seedProjects.  A document is modelled   *)
(* by its id and its title.                                                *)
(***************************************************************************)
\* concurrent callers of getProjects
MaxCallers == 3

Callers == 1..MaxCallers

\* the titles of the projects of @/data/initial-projects
initialProjects == <<"alpha", "beta">>

NotCalled == [pc |-> "idle", batch |-> <<>>, result |-> <<>>]

ServiceIdle ==
    /\ isFirebaseEnabled = TRUE
    /\ firestore = <<>>
    /\ getProjectsCalls = [c \in Callers |-> NotCalled]
    /\ freshId = 1

\* seedProjects up to its await: a batch that sets every initial project
\* under a document reference with a newly generated id
seedBatch(base) ==
    [i \in DOMAIN initialProjects |-> [id |-> base + i - 1, title |-> initialProjects[i]]]

\* querySnapshot.docs.map(doc => ({ id: doc.id, ...doc.data() }))
titlesOf(docs) == [i \in DOMAIN docs |-> docs[i].title]

(***************************************************************************)
(* useProjects: the callback of the subscription.  A string is a sequence  *)
(* of characters; a project has its id, title, description, category and   *)
(* featured flag, and may have a priority.                                 *)
(***************************************************************************)
\* entries of a delivered snapshot
MaxSnapshot == 3

\* a title, the same title in upper case with a blank, and a title that ends
\* in two colons
SnapshotTitles == {<<"a">>, <<"A", " ">>, <<"a", ":", ":">>}

\* a category, and a category that starts with two colons
SnapshotCategories == {<<"a">>, <<":", ":", "a">>}

SnapshotPriorities == {-1, 1}

\* the documents with a title, a description and a category, with and
\* without a priority
CompleteEntries ==
    [title : SnapshotTitles, description : {<<"d">>}, category : SnapshotCategories,
     featured : BOOLEAN, priority : SnapshotPriorities]
    \cup [title : SnapshotTitles, description : {<<"d">>}, category : SnapshotCategories,
          featured : BOOLEAN]

\* documents with an empty title, an empty description, an empty category
IncompleteEntries ==
    {[title |-> <<>>, description |-> <<"d">>, category |-> <<"a">>, featured |-> TRUE],
     [title |-> <<"a">>, description |-> <<>>, category |-> <<"a">>, featured |-> TRUE],
     [title |-> <<"a">>, description |-> <<"d">>, category |-> <<>>, featured |-> TRUE]}

\* ({ id: doc.id, ...doc.data() }): the i-th document of a snapshot has id i
withId(e, i) == [f \in (DOMAIN e) \cup {"id"} |-> IF f = "id" THEN i ELSE e[f]]

Snapshots ==
    {[i \in DOMAIN es |-> withId(es[i], i)] :
        es \in SeqsUpTo(CompleteEntries \cup IncompleteEntries, MaxSnapshot)}

\* project.title && project.description && project.category
isValidProject(p) == p.title # <<>> /\ p.description # <<>> /\ p.category # <<>>

\* `${p.title.trim().toLowerCase()}::${(p.category || '').trim().toLowerCase()}`
projectKey(p) == toLowerCase(trim(p.title)) \o <<":", ":">> \o toLowerCase(trim(p.category))

\* for (const p of validProjects) { if (!seen.has(key)) { seen.add(key);
\*                                                        deduped.push(p) } }
RECURSIVE dedupeFrom(_, _, _)
dedupeFrom(validProjects, i, seen) ==
    IF i > Len(validProjects) THEN <<>>
    ELSE IF projectKey(validProjects[i]) \in seen
        THEN dedupeFrom(validProjects, i + 1, seen)
        ELSE <<validProjects[i]>>
             \o dedupeFrom(validProjects, i + 1, seen \cup {projectKey(validProjects[i])})

\* typeof p.priority === 'number' ? p.priority : 0
priorityOf(p) == IF "priority" \in DOMAIN p THEN p.priority ELSE 0

\* the comparator of deduped.sort
compareProjects(a, b) ==
    IF b.featured # a.featured
        THEN (IF b.featured THEN 1 ELSE -1)
        ELSE priorityOf(b) - priorityOf(a)

\* Array.prototype.sort is stable: an entry goes behind the entries that do
\* not compare greater
RECURSIVE insertSorted(_, _)
insertSorted(sorted, p) ==
    IF sorted = <<>> THEN <<p>>
    ELSE IF compareProjects(Head(sorted), p) <= 0
        THEN <<Head(sorted)>> \o insertSorted(Tail(sorted), p)
        ELSE <<p>> \o sorted

RECURSIVE sortFrom(_, _, _)
sortFrom(list, i, sorted) ==
    IF i > Len(list) THEN sorted
    ELSE sortFrom(list, i + 1, insertSorted(sorted, list[i]))

\* what the callback hands to setProjects
processSnapshot(updatedProjects) ==
    LET validProjects == SelectSeq(updatedProjects, isValidProject)
        deduped == dedupeFrom(validProjects, 1, {})
    IN  sortFrom(deduped, 1, <<>>)

SiteUnmounted ==
    /\ siteProjects = <<>>
    /\ loading = TRUE
    /\ error = "null"
    /\ snapshot = <<>>

(***************************************************************************)
(* The state machine: a snapshot is handed over by the loader, then        *)
(* validated or deduplicated.                                              *)
(***************************************************************************)
Init ==
    /\ ServiceIdle
    /\ SiteUnmounted
    /\ \E s \in Shapes :
         \E cs \in SeqsOfLen(Company, s[1]), ts \in SeqsOfLen(Technology, s[2]),
            ms \in SeqsOfLen(Module, s[3]), pids \in SeqsOfLen(Ids, s[4]),
            ics \in SeqsOfLen(IntegrationCore, s[5]),
            refs \in RefLists(3 * s[4] + s[5],
                             MaxSize - (s[1] + s[2] + s[3] + s[4] + s[5])) :
                data = PortfolioData(cs, ts, ms, pids, ics, refs)
    /\ report = EmptyReport
    /\ output = data
    /\ pc = "loaded"
    /\ idInput = <<>>
    /\ idResult = NotParsed
    /\ AdminUnmounted

Validate ==
    /\ pc = "loaded"
    /\ report' = validateDataQuality(data)
    /\ pc' = "validated"
    /\ UNCHANGED <<data, output, schemaVars, adminVars, serviceVars, siteVars>>

Next == Validate

Spec == Init /\ [][Next]_vars

\* deduplicateData(data)
Deduplicate ==
    /\ pc = "loaded"
    /\ output' = deduplicateData(data)
    /\ data' = argumentAfterDeduplicate(data)
    /\ pc' = "deduplicated"
    /\ UNCHANGED <<report, schemaVars, adminVars, serviceVars, siteVars>>

\* deduplicateData applied to the snapshot it returned
DeduplicateOutput ==
    /\ pc = "deduplicated"
    /\ output' = deduplicateData(output)
    /\ pc' = "deduplicatedTwice"
    /\ UNCHANGED <<data, report, schemaVars, adminVars, serviceVars, siteVars>>

NextDeduplicate == Deduplicate \/ DeduplicateOutput

SpecDeduplicate == Init /\ [][NextDeduplicate]_vars

\* validateDataQuality called once more with the same argument
ValidateAgain ==
    /\ pc = "validated"
    /\ report' = validateDataQuality(data)
    /\ UNCHANGED <<data, output, pc, schemaVars, adminVars, serviceVars, siteVars>>

\* deduplicateData called once more with the same argument
DeduplicateAgain ==
    /\ pc = "deduplicated"
    /\ output' = deduplicateData(data)
    /\ data' = argumentAfterDeduplicate(data)
    /\ UNCHANGED <<report, pc, schemaVars, adminVars, serviceVars, siteVars>>

NextCalls == Validate \/ ValidateAgain \/ Deduplicate \/ DeduplicateAgain

SpecCalls == Init /\ [][NextCalls]_vars

\* optimizeData(data, removeUnused), with removeUnused given or left at its
\* default
Optimize ==
    \E removeUnused \in BOOLEAN :
        /\ pc = "loaded"
        /\ output' = optimizeData(data, removeUnused)
        /\ pc' = IF removeUnused THEN "optimizedRemoving" ELSE "optimizedKeeping"
        /\ UNCHANGED <<data, report, schemaVars, adminVars, serviceVars, siteVars>>

NextOptimize == Optimize

SpecOptimize == Init /\ [][NextOptimize]_vars

\* deduplicateData(data), after data has been validated
DeduplicateValidated ==
    /\ pc = "validated"
    /\ output' = deduplicateData(data)
    /\ data' = argumentAfterDeduplicate(data)
    /\ pc' = "validatedDeduplicated"
    /\ UNCHANGED <<report, schemaVars, adminVars, serviceVars, siteVars>>

\* validateDataQuality(deduplicateData(data))
ValidateOutput ==
    /\ pc = "validatedDeduplicated"
    /\ report' = validateDataQuality(output)
    /\ pc' = "revalidated"
    /\ UNCHANGED <<data, output, schemaVars, adminVars, serviceVars, siteVars>>

NextRevalidate == Validate \/ DeduplicateValidated \/ ValidateOutput

SpecRevalidate == Init /\ [][NextRevalidate]_vars

(***************************************************************************)
(* The schema validator: an identifier is handed to entityIdSchema.        *)
(***************************************************************************)
\* no snapshot is being processed
EngineIdle ==
    /\ data = PortfolioData(<<>>, <<>>, <<>>, <<>>, <<>>, <<>>)
    /\ report = EmptyReport
    /\ output = data
    /\ pc = "idle"

InitSchema ==
    /\ ServiceIdle
    /\ SiteUnmounted
    /\ EngineIdle
    /\ AdminUnmounted
    /\ idInput \in IdStrings
    /\ idResult = NotParsed

ParseId ==
    /\ idResult = NotParsed
    /\ idResult' = entityIdSchema(idInput)
    /\ UNCHANGED <<idInput, engineVars, adminVars, serviceVars, siteVars>>

NextSchema == ParseId

SpecSchema == InitSchema /\ [][NextSchema]_vars

(***************************************************************************)
(* The state machine of useAdminData: the hook is mounted over a backend   *)
(* that holds some documents; the initial effect has called refreshData.   *)
(***************************************************************************)
\* the documents of a collection, the backend's ids starting after `base`
docsOf(kind, labels, base) == [i \in DOMAIN labels |-> makeDoc(kind, base + i, labels[i])]

\* the backends that hold at most n documents
StoresUpTo(n) ==
    {[projects |-> docsOf("projects", ts, 0),
      skills |-> docsOf("skills", ns, Len(ts)),
      experiences |-> docsOf("experiences", cs, Len(ts) + Len(ns))] :
        <<ts, ns, cs>> \in {t \in SeqsUpTo(Titles, n) \X SeqsUpTo(Names, n)
                                      \X SeqsUpTo(Companies, n) :
                                 Len(t[1]) + Len(t[2]) + Len(t[3]) <= n}}

Stores == StoresUpTo(MaxDocs)

\* a getAll request on its way to the backend, made by refreshData or by a
\* create, update or delete call; once the backend has answered it, data is
\* the response on its way back
request(kind, owner) == [kind |-> kind, owner |-> owner, read |-> FALSE, data |-> <<>>]

refreshLoads == {request(k, "refresh") : k \in Kinds}

InitAdmin ==
    /\ ServiceIdle
    /\ SiteUnmounted
    /\ EngineIdle
    /\ idInput = <<>>
    /\ idResult = NotParsed
    /\ store \in Stores
    /\ lists = firstRenderLists
    /\ isLoading = [k \in Kinds |-> TRUE]
    /\ isRefreshing = TRUE
    /\ qualityReport = NoReport
    /\ lastError = "null"
    /\ stats = statsMemo(lists, qualityReport)
    /\ loads = refreshLoads
    /\ call = NoCall
    /\ returned = NoReturn
    /\ nextId = Len(store.projects) + Len(store.skills) + Len(store.experiences) + 1
    /\ calls = 0

idsOf(docs) == {docs[i].id : i \in DOMAIN docs}

\* what the await after a load continues with: refreshData's setIsRefreshing(false)
\* once all three loads have settled, or the return of the create, update or
\* delete call that reloaded
afterLoad(l, remaining) ==
    /\ isRefreshing' = IF l.owner = "refresh" /\ ~(\E o \in remaining : o.owner = "refresh")
                           THEN FALSE ELSE isRefreshing
    /\ IF l.owner = "call"
           THEN /\ returned' = [op |-> call.op, ok |-> TRUE, id |-> call.id]
                /\ call' = NoCall
           ELSE UNCHANGED <<returned, call>>

\* a loader that rethrows what it caught: Promise.all rejects and
\* refreshData ends before its setIsRefreshing(false)
afterRethrown(l, remaining) ==
    /\ isRefreshing' = isRefreshing
    /\ IF l.owner = "call"
           THEN /\ returned' = [op |-> call.op, ok |-> TRUE, id |-> call.id]
                /\ call' = NoCall
           ELSE UNCHANGED <<returned, call>>

\* the loader has caught the error and its promise resolves: what awaits it
\* goes on as after a load that succeeded
afterCaught(l, remaining) == afterLoad(l, remaining)

\* refreshData, called again by the user once the previous one has settled
RefreshData ==
    /\ ~isRefreshing
    /\ isRefreshing' = TRUE
    /\ isLoading' = [k \in Kinds |-> TRUE]
    /\ loads' = loads \cup refreshLoads
    /\ UNCHANGED <<store, lists, qualityReport, lastError, stats, call, returned, nextId, calls>>
    /\ UNCHANGED <<engineVars, schemaVars, serviceVars, siteVars>>

\* the backend answers a getAll request with the documents it holds
BackendReads ==
    \E l \in loads :
        /\ ~l.read
        /\ loads' = (loads \ {l}) \cup {[l EXCEPT !.read = TRUE, !.data = store[l.kind]]}
        /\ UNCHANGED <<store, lists, isLoading, isRefreshing, qualityReport, lastError, stats,
                       call, returned, nextId, calls>>
        /\ UNCHANGED <<engineVars, schemaVars, serviceVars, siteVars>>

\* getAll resolves: setX(data); setLastError(null); finally setIsLoadingX(false)
LoadSucceeds ==
    \E l \in loads :
        /\ l.read
        /\ loads' = loads \ {l}
        /\ lists' = [lists EXCEPT ![l.kind] = l.data]
        /\ lastError' = "null"
        /\ isLoading' = [isLoading EXCEPT ![l.kind] = FALSE]
        /\ afterLoad(l, loads')
        /\ stats' = statsMemo(lists', qualityReport)
        /\ UNCHANGED <<store, qualityReport, nextId, calls>>
        /\ UNCHANGED <<engineVars, schemaVars, serviceVars, siteVars>>

\* getAll rejects: setLastError(err); finally setIsLoadingX(false)
LoadFails ==
    \E l \in loads :
        /\ ~l.read
        /\ loads' = loads \ {l}
        /\ lastError' = "Failed to load"
        /\ isLoading' = [isLoading EXCEPT ![l.kind] = FALSE]
        /\ afterCaught(l, loads')
        /\ UNCHANGED <<store, lists, qualityReport, stats, nextId, calls>>
        /\ UNCHANGED <<engineVars, schemaVars, serviceVars, siteVars>>

startCall(c) ==
    /\ calls < MaxCalls
    /\ calls' = calls + 1
    /\ call' = c
    /\ returned' = NoReturn
    /\ UNCHANGED <<store, lists, isLoading, isRefreshing, qualityReport, lastError, stats,
                   loads, nextId>>
    /\ UNCHANGED <<engineVars, schemaVars, serviceVars, siteVars>>

\* createProject, createSkill, createExperience up to their await of the write
StartCreate ==
    /\ call = NoCall
    /\ \E k \in Kinds : \E v \in LabelsOf(k) :
        startCall([op |-> "create", kind |-> k, id |-> 0, label |-> v, phase |-> "writing"])

\* updateProject, updateSkill, updateExperience, on a document the lists show
StartUpdate ==
    /\ call = NoCall
    /\ \E k \in Kinds : \E id \in idsOf(lists[k]) : \E v \in LabelsOf(k) :
        startCall([op |-> "update", kind |-> k, id |-> id, label |-> v, phase |-> "writing"])

\* deleteProject, deleteSkill, deleteExperience, on a document the lists show
StartDelete ==
    /\ call = NoCall
    /\ \E k \in Kinds : \E id \in idsOf(lists[k]) :
        startCall([op |-> "delete", kind |-> k, id |-> id, label |-> "none", phase |-> "writing"])

\* the backend's collection after the write of the call
written(c) ==
    LET docs == store[c.kind]
    IN  CASE c.op = "create" -> Append(docs, makeDoc(c.kind, nextId, c.label))
          [] c.op = "update" -> [i \in DOMAIN docs |->
                                    IF docs[i].id = c.id THEN makeDoc(c.kind, c.id, c.label)
                                    ELSE docs[i]]
          [] c.op = "delete" -> SelectSeq(docs, LAMBDA d : d.id # c.id)

\* the write resolves and the call goes on to await loadX():
\* setIsLoadingX(true) and the getAll request
WriteSucceeds ==
    /\ call.phase = "writing"
    /\ call.op = "update" => call.id \in idsOf(store[call.kind])
    /\ store' = [store EXCEPT ![call.kind] = written(call)]
    /\ nextId' = IF call.op = "create" THEN nextId + 1 ELSE nextId
    /\ call' = [call EXCEPT !.phase = "loading",
                            !.id = IF call.op = "create" THEN nextId ELSE @]
    /\ isLoading' = [isLoading EXCEPT ![call.kind] = TRUE]
    /\ loads' = loads \cup {request(call.kind, "call")}
    /\ UNCHANGED <<lists, isRefreshing, qualityReport, lastError, stats, returned, calls>>
    /\ UNCHANGED <<engineVars, schemaVars, serviceVars, siteVars>>

\* a catch that returns what the call returns when it succeeds
returnOnFailureAsSuccess(c) == [op |-> c.op, ok |-> TRUE, id |-> c.id]

\* catch: return null (create), return false (update, delete)
returnOnFailure(c) == [op |-> c.op, ok |-> FALSE, id |-> 0]

\* the write rejects: setLastError(err); return null or false
WriteFails ==
    /\ call.phase = "writing"
    /\ lastError' = "Failed to write"
    /\ returned' = returnOnFailure(call)
    /\ call' = NoCall
    /\ UNCHANGED <<store, lists, isLoading, isRefreshing, qualityReport, stats, loads,
                   nextId, calls>>
    /\ UNCHANGED <<engineVars, schemaVars, serviceVars, siteVars>>

\* runQualityCheck of the current render, called from the dashboard
RunQualityCheck ==
    /\ qualityReport' = <<runQualityCheck(lists.projects, lists.skills, lists.experiences)>>
    /\ stats' = statsMemo(lists, qualityReport')
    /\ UNCHANGED <<store, lists, isLoading, isRefreshing, lastError, loads, call, returned,
                   nextId, calls>>
    /\ UNCHANGED <<engineVars, schemaVars, serviceVars, siteVars>>

\* deduplicateAllData: useCallback(..., []) keeps the runQualityCheck of the
\* first render, whose closure holds the lists of the first render
DeduplicateAllData ==
    /\ call = NoCall
    /\ qualityReport' = <<runQualityCheck(firstRenderLists.projects, firstRenderLists.skills,
                                          firstRenderLists.experiences)>>
    /\ stats' = statsMemo(lists, qualityReport')
    /\ returned' = [op |-> "deduplicateAllData", ok |-> TRUE, id |-> 0]
    /\ UNCHANGED <<store, lists, isLoading, isRefreshing, lastError, loads, call, nextId, calls>>
    /\ UNCHANGED <<engineVars, schemaVars, serviceVars, siteVars>>

NextAdmin ==
    \/ RefreshData
    \/ BackendReads
    \/ LoadSucceeds
    \/ LoadFails
    \/ StartCreate
    \/ StartUpdate
    \/ StartDelete
    \/ WriteSucceeds
    \/ WriteFails
    \/ RunQualityCheck
    \/ DeduplicateAllData

SpecAdmin == InitAdmin /\ [][NextAdmin]_vars

(***************************************************************************)
(* refreshData alone: the initial effect and the user's later refreshes,   *)
(* over a backend that answers or rejects every request and whose          *)
(* responses arrive.                                                       *)
(***************************************************************************)
NextRefresh ==
    \/ RefreshData
    \/ BackendReads
    \/ LoadSucceeds
    \/ LoadFails

\* every request is answered unless it is rejected, and every response is
\* delivered
BackendSettles == WF_vars(BackendReads) /\ WF_vars(LoadSucceeds)

SpecRefresh == InitAdmin /\ [][NextRefresh]_vars /\ BackendSettles

(***************************************************************************)
(* create, update and delete calls over lists that have been loaded, with  *)
(* no refresh in flight.                                                   *)
(***************************************************************************)
InitWrite ==
    /\ ServiceIdle
    /\ SiteUnmounted
    /\ EngineIdle
    /\ idInput = <<>>
    /\ idResult = NotParsed
    /\ store \in Stores
    /\ lists = store
    /\ isLoading = [k \in Kinds |-> FALSE]
    /\ isRefreshing = FALSE
    /\ qualityReport = NoReport
    /\ lastError = "null"
    /\ stats = statsMemo(lists, qualityReport)
    /\ loads = {}
    /\ call = NoCall
    /\ returned = NoReturn
    /\ nextId = Len(store.projects) + Len(store.skills) + Len(store.experiences) + 1
    /\ calls = 0

NextWrite ==
    \/ StartCreate
    \/ StartUpdate
    \/ StartDelete
    \/ WriteSucceeds
    \/ WriteFails
    \/ BackendReads
    \/ LoadSucceeds
    \/ LoadFails

SpecWrite == InitWrite /\ [][NextWrite]_vars

(***************************************************************************)
(* The quality check over the lists the hook holds once its loads have     *)
(* settled: runQualityCheck, called from the dashboard.                    *)
(***************************************************************************)
\* documents the hook holds when the quality check is called
MaxHeld == 3

InitQuality ==
    /\ ServiceIdle
    /\ SiteUnmounted
    /\ EngineIdle
    /\ idInput = <<>>
    /\ idResult = NotParsed
    /\ store \in StoresUpTo(MaxHeld)
    /\ lists = store
    /\ isLoading = [k \in Kinds |-> FALSE]
    /\ isRefreshing = FALSE
    /\ qualityReport = NoReport
    /\ lastError = "null"
    /\ stats = statsMemo(lists, qualityReport)
    /\ loads = {}
    /\ call = NoCall
    /\ returned = NoReturn
    /\ nextId = Len(store.projects) + Len(store.skills) + Len(store.experiences) + 1
    /\ calls = 0

NextQuality == RunQualityCheck

SpecQuality == InitQuality /\ [][NextQuality]_vars

(***************************************************************************)
(* The score of the stats memo over the reports a DataQualityReport can    *)
(* hold: setQualityReport(r), then the render that follows.                *)
(***************************************************************************)
\* the largest count of a report handed to setQualityReport
MaxCount == 4

QualityReports ==
    {[isValid |-> TRUE, errors |-> <<>>, warnings |-> <<>>,
      stats |-> [totalEntities |-> 0, duplicates |-> d, brokenReferences |-> b,
                 unusedEntities |-> u]] :
        <<d, b, u>> \in (0..MaxCount) \X (0..MaxCount) \X (0..MaxCount)}

InitScore ==
    /\ ServiceIdle
    /\ SiteUnmounted
    /\ EngineIdle
    /\ idInput = <<>>
    /\ idResult = NotParsed
    /\ AdminUnmounted

SetQualityReport ==
    \E r \in QualityReports :
        /\ qualityReport' = <<r>>
        /\ stats' = statsMemo(lists, qualityReport')
        /\ UNCHANGED <<store, lists, isLoading, isRefreshing, lastError, loads, call,
                       returned, nextId, calls>>
        /\ UNCHANGED <<engineVars, schemaVars, serviceVars, siteVars>>

NextScore == SetQualityReport

SpecScore == InitScore /\ [][NextScore]_vars

(***************************************************************************)
(* Concurrent calls of firebaseService.getProjects.                        *)
(***************************************************************************)
InitService ==
    /\ EngineIdle
    /\ idInput = <<>>
    /\ idResult = NotParsed
    /\ AdminUnmounted
    /\ SiteUnmounted
    /\ isFirebaseEnabled \in BOOLEAN
    /\ firestore \in {<<>>, <<[id |-> 0, title |-> "gamma"]>>}
    /\ getProjectsCalls = [c \in Callers |-> NotCalled]
    /\ freshId = 1

\* getProjects is called: without Firebase it returns initialProjects, with
\* Firebase it awaits getDocs(q)
GetProjects ==
    \E c \in Callers :
        /\ getProjectsCalls[c].pc = "idle"
        /\ getProjectsCalls' =
               [getProjectsCalls EXCEPT ![c] =
                    IF ~isFirebaseEnabled
                        THEN [pc |-> "returned", batch |-> <<>>, result |-> initialProjects]
                        ELSE [pc |-> "querying", batch |-> <<>>, result |-> <<>>]]
        /\ UNCHANGED <<isFirebaseEnabled, firestore, freshId>>
        /\ UNCHANGED <<engineVars, schemaVars, adminVars, siteVars>>

\* getDocs resolves: on an empty collection seedProjects builds its batch and
\* awaits the commit, else the documents are returned
GetDocsResolves ==
    \E c \in Callers :
        /\ getProjectsCalls[c].pc = "querying"
        /\ IF firestore = <<>>
               THEN /\ getProjectsCalls' =
                           [getProjectsCalls EXCEPT ![c] =
                                [pc |-> "seeding", batch |-> seedBatch(freshId),
                                 result |-> <<>>]]
                    /\ freshId' = freshId + Len(initialProjects)
               ELSE /\ getProjectsCalls' =
                           [getProjectsCalls EXCEPT ![c] =
                                [pc |-> "returned", batch |-> <<>>,
                                 result |-> titlesOf(firestore)]]
                    /\ freshId' = freshId
        /\ UNCHANGED <<isFirebaseEnabled, firestore>>
        /\ UNCHANGED <<engineVars, schemaVars, adminVars, siteVars>>

\* getDocs rejects: the error is logged and thrown again
GetDocsRejects ==
    \E c \in Callers :
        /\ getProjectsCalls[c].pc = "querying"
        /\ getProjectsCalls' = [getProjectsCalls EXCEPT ![c].pc = "failed"]
        /\ UNCHANGED <<isFirebaseEnabled, firestore, freshId>>
        /\ UNCHANGED <<engineVars, schemaVars, adminVars, siteVars>>

\* batch.commit() resolves: the documents are in the collection and
\* getProjects returns initialProjects
CommitResolves ==
    \E c \in Callers :
        /\ getProjectsCalls[c].pc = "seeding"
        /\ firestore' = firestore \o getProjectsCalls[c].batch
        /\ getProjectsCalls' =
               [getProjectsCalls EXCEPT ![c] =
                    [pc |-> "returned", batch |-> <<>>, result |-> initialProjects]]
        /\ UNCHANGED <<isFirebaseEnabled, freshId>>
        /\ UNCHANGED <<engineVars, schemaVars, adminVars, siteVars>>

\* batch.commit() rejects: nothing is written and getProjects throws
CommitRejects ==
    \E c \in Callers :
        /\ getProjectsCalls[c].pc = "seeding"
        /\ getProjectsCalls' =
               [getProjectsCalls EXCEPT ![c] =
                    [pc |-> "failed", batch |-> <<>>, result |-> <<>>]]
        /\ UNCHANGED <<isFirebaseEnabled, firestore, freshId>>
        /\ UNCHANGED <<engineVars, schemaVars, adminVars, siteVars>>

NextService ==
    \/ GetProjects
    \/ GetDocsResolves
    \/ GetDocsRejects
    \/ CommitResolves
    \/ CommitRejects

SpecService == InitService /\ [][NextService]_vars

(***************************************************************************)
(* The subscription of useProjects.                                        *)
(***************************************************************************)
\* the hook is mounted and has subscribed; the collection holds the
\* documents of some snapshot
InitSite ==
    /\ EngineIdle
    /\ idInput = <<>>
    /\ idResult = NotParsed
    /\ AdminUnmounted
    /\ ServiceIdle
    /\ siteProjects = <<>>
    /\ loading = TRUE
    /\ error = "null"
    /\ snapshot \in Snapshots

\* the callback runs with the snapshot: setProjects(deduped);
\* setLoading(false); setError(null).  The callback keeps nothing from one
\* snapshot to the next, so a later snapshot acts as the first one does.
Deliver ==
    /\ siteProjects' = processSnapshot(snapshot)
    /\ loading' = FALSE
    /\ error' = "null"
    /\ UNCHANGED snapshot
    /\ UNCHANGED <<engineVars, schemaVars, adminVars, serviceVars>>

\* isOnline changes: the effect runs again, setLoading(true), and subscribes
\* anew
Resubscribe ==
    /\ ~loading
    /\ loading' = TRUE
    /\ UNCHANGED <<siteProjects, error, snapshot>>
    /\ UNCHANGED <<engineVars, schemaVars, adminVars, serviceVars>>

NextSite == Deliver \/ Resubscribe

SpecSite == InitSite /\ [][NextSite]_vars

(***************************************************************************)
(* Vocabulary of the properties.                                           *)
(***************************************************************************)
Collections == {"companies", "technologies", "modules", "projects", "integrations"}

CollectionOf(d, c) ==
    CASE c = "companies" -> d.entities.companies
      [] c = "technologies" -> d.entities.technologies
      [] c = "modules" -> d.entities.modules
      [] c = "projects" -> d.projects
      [] c = "integrations" -> d.integrations

Validated == pc = "validated"

CountWhere(seq, Test(_)) == Cardinality({i \in DOMAIN seq : Test(seq[i])})

\* how many entries of a collection carry the id
Occurrences(entities, id) == CountWhere(entities, LAMBDA e : e.id = id)

\* the id is the id of no entry of the collection
Absent(entities, id) == \A i \in DOMAIN entities : entities[i].id # id

\* how many list positions, over all entities of the collection, hold the id
Listings(entities, field, id) ==
    Cardinality({<<i, j>> \in (DOMAIN entities) \X (1..MaxSize) :
                    j \in DOMAIN entities[i][field] /\ entities[i][field][j] = id})

\* the collection a project's reference field points into
TargetOf(d, field) ==
    CASE field = "partners" -> d.entities.companies
      [] field = "technologies" -> d.entities.technologies
      [] field = "modules" -> d.entities.modules

ProjectFields == {"partners", "technologies", "modules"}

DuplicateErrors(c, id) ==
    CountWhere(report.errors,
               LAMBDA e : e.type = "duplicate" /\ e.entity = c /\ e.value = id)

\* the ids of the entries of a collection that repeat an earlier entry's id,
\* in collection order
RECURSIVE RepeatedIdsFrom(_, _)
RepeatedIdsFrom(entities, i) ==
    IF i > Len(entities) THEN <<>>
    ELSE (IF \E j \in 1..(i - 1) : entities[j].id = entities[i].id
              THEN <<entities[i].id>> ELSE <<>>)
         \o RepeatedIdsFrom(entities, i + 1)

\* the values of the report's duplicate errors for a collection, in order
DuplicateValues(c) ==
    LET es == SelectSeq(report.errors,
                        LAMBDA e : e.type = "duplicate" /\ e.entity = c)
    IN  [i \in DOMAIN es |-> es[i].value]

\* C1: after validation, in each of the five collections an id occurring k > 1
\* times has exactly k - 1 'duplicate' errors for that collection and id, an
\* id occurring once (or only in other collections) has none, and the flagged
\* entries are exactly the ones repeating an earlier entry (the first
\* occurrence is never flagged).
C1_DuplicatePass ==
    Validated =>
        \A c \in Collections :
            /\ \A id \in Ids :
                   LET k == Occurrences(CollectionOf(data, c), id)
                   IN  DuplicateErrors(c, id) = IF k > 1 THEN k - 1 ELSE 0
            /\ DuplicateValues(c) = RepeatedIdsFrom(CollectionOf(data, c), 1)

\* an id three times in one collection and once in another one
C1_Witness ==
    /\ Validated
    /\ \E c1 \in Collections, c2 \in Collections, id \in Ids :
           /\ c1 # c2
           /\ Occurrences(CollectionOf(data, c1), id) = 3
           /\ Occurrences(CollectionOf(data, c2), id) = 1
           /\ DuplicateErrors(c1, id) = 2
           /\ DuplicateErrors(c2, id) = 0

MissingReferences ==
    CountWhere(report.errors, LAMBDA e : e.type = "missing_reference")

ProjectReferenceErrors(field, id) ==
    CountWhere(report.errors,
               LAMBDA e : /\ e.type = "missing_reference" /\ e.entity = "projects"
                          /\ e.field = field /\ e.value = id)

\* C2: after validation, for each of partners, technologies and modules and
\* each id, the 'missing_reference' errors on that field of projects number
\* the list positions holding the id when the id is absent from the company,
\* technology or module collection, and zero when it is present; and
\* stats.brokenReferences counts the 'missing_reference' errors.
C2_ProjectReferences ==
    Validated =>
        /\ \A field \in ProjectFields, id \in Ids :
               ProjectReferenceErrors(field, id) =
                   IF Absent(TargetOf(data, field), id)
                       THEN Listings(data.projects, field, id)
                       ELSE 0
        /\ report.stats.brokenReferences = MissingReferences

\* a project lists the same missing company twice, and a present technology
C2_Witness ==
    /\ Validated
    /\ \E i \in DOMAIN data.projects, id \in Ids :
           /\ data.projects[i].partners = <<id, id>>
           /\ Absent(data.entities.companies, id)
           /\ ProjectReferenceErrors("partners", id) = 2
           /\ report.stats.brokenReferences = 2

IntegrationEndErrors(field, iid, id) ==
    CountWhere(report.errors,
               LAMBDA e : /\ e.type = "missing_reference" /\ e.entity = "integrations"
                          /\ e.field = field /\ e.message = <<iid, id>>
                          /\ e.value = id)

Resolvable(d, id) ==
    \/ id = "system"
    \/ ~Absent(d.entities.technologies, id)
    \/ ~Absent(d.entities.modules, id)

\* C3: after validation, the 'missing_reference' errors on field source
\* (resp. target) naming an integration id and a value number the
\* integrations with that id and that source (resp. target) when the value is
\* not "system", not a technology id and not a module id, and zero otherwise;
\* a system-to-system integration has no source or target error.
C3_IntegrationEnds ==
    Validated =>
        \A field \in {"source", "target"}, iid \in Ids, id \in Ids :
            IntegrationEndErrors(field, iid, id) =
                IF Resolvable(data, id) THEN 0
                ELSE CountWhere(data.integrations,
                                LAMBDA g : g.id = iid /\ g[field] = id)

\* an integration from "system", which is neither a technology nor a module
\* id, to another id that is neither
C3_Witness ==
    /\ Validated
    /\ \E i \in DOMAIN data.integrations :
           LET g == data.integrations[i]
           IN  /\ g.source = "system"
               /\ Absent(data.entities.technologies, "system")
               /\ Absent(data.entities.modules, "system")
               /\ ~Resolvable(data, g.target)
               /\ IntegrationEndErrors("source", g.id, g.source) = 0
               /\ IntegrationEndErrors("target", g.id, g.target) = 1

IntegrationProjectErrors(iid, id) ==
    CountWhere(report.errors,
               LAMBDA e : /\ e.type = "missing_reference" /\ e.entity = "integrations"
                          /\ e.field = "projects" /\ e.message = <<iid, id>>
                          /\ e.value = id)

\* the broken references of a snapshot, counted from the data
BrokenProjectReferences(d) ==
    Cardinality({<<i, field, j>> \in (DOMAIN d.projects) \X ProjectFields \X (1..MaxSize) :
                    /\ j \in DOMAIN d.projects[i][field]
                    /\ Absent(TargetOf(d, field), d.projects[i][field][j])})

BrokenIntegrationEnds(d) ==
    Cardinality({<<i, field>> \in (DOMAIN d.integrations) \X {"source", "target"} :
                    ~Resolvable(d, d.integrations[i][field])})

BrokenIntegrationProjects(d) ==
    Cardinality({<<i, j>> \in (DOMAIN d.integrations) \X (1..MaxSize) :
                    /\ j \in DOMAIN d.integrations[i].projects
                    /\ Absent(d.projects, d.integrations[i].projects[j])})

\* C4: after validation, the 'missing_reference' errors on field projects
\* naming an integration id and a value number the positions of the projects
\* lists of the integrations with that id that hold the value when the value
\* is the id of no project, and zero when it is a project id; and
\* stats.brokenReferences has one increment per broken reference of the data.
C4_IntegrationProjects ==
    Validated =>
        /\ \A iid \in Ids, id \in Ids :
               IntegrationProjectErrors(iid, id) =
                   IF Absent(data.projects, id)
                       THEN Listings(SelectSeq(data.integrations, LAMBDA g : g.id = iid),
                                     "projects", id)
                       ELSE 0
        /\ report.stats.brokenReferences =
               BrokenProjectReferences(data) + BrokenIntegrationEnds(data)
               + BrokenIntegrationProjects(data)

\* an integration lists a project id and an id of no project
C4_Witness ==
    /\ Validated
    /\ \E i \in DOMAIN data.integrations :
           LET g == data.integrations[i]
           IN  /\ Len(g.projects) = 2
               /\ ~Absent(data.projects, g.projects[1])
               /\ Absent(data.projects, g.projects[2])
               /\ IntegrationProjectErrors(g.id, g.projects[1]) = 0
               /\ IntegrationProjectErrors(g.id, g.projects[2]) = 1

\* the collections in which a reference of the erroneous field is looked up
LookedUpIn(d, e) ==
    IF e.entity = "projects" THEN {TargetOf(d, e.field)}
    ELSE IF e.field = "projects" THEN {d.projects}
    ELSE {d.entities.technologies, d.entities.modules}

\* C5: after validation, no 'missing_reference' error carries a value that
\* occurs two or more times in a collection the reference is looked up in: a
\* duplicated id still exists for the reference checks.
C5_DuplicatedIdExists ==
    Validated =>
        \A n \in DOMAIN report.errors :
            LET e == report.errors[n]
            IN  e.type = "missing_reference" =>
                    \A entities \in LookedUpIn(data, e) :
                        Occurrences(entities, e.value) < 2

\* a technology id occurs twice, is reported as a duplicate, and a project
\* lists it without a missing reference
C5_Witness ==
    /\ Validated
    /\ \E id \in Ids :
           /\ Occurrences(data.entities.technologies, id) = 2
           /\ DuplicateErrors("technologies", id) = 1
           /\ Listings(data.projects, "technologies", id) = 1
           /\ MissingReferences = 0

\* C6: in every state the report has isValid = (errors is empty), whatever
\* the number of warnings; a validated report with warnings and no errors is
\* valid.
C6_ValidIffNoErrors ==
    /\ report.isValid <=> (report.errors = <<>>)
    /\ (Validated /\ report.errors = <<>> /\ report.warnings # <<>>) => report.isValid

\* a validated report with two warnings and no error
C6_Witness ==
    /\ Validated
    /\ Len(report.warnings) = 2
    /\ report.errors = <<>>
    /\ report.isValid

AllDuplicateErrors == CountWhere(report.errors, LAMBDA e : e.type = "duplicate")

\* two companies with the same id and nothing else
ScenarioB(d) ==
    /\ Len(d.entities.companies) = 2
    /\ d.entities.companies[1].id = d.entities.companies[2].id
    /\ d.entities.technologies = <<>>
    /\ d.entities.modules = <<>>
    /\ d.projects = <<>>
    /\ d.integrations = <<>>

\* C7: after validation, stats.totalEntities is the sum of the lengths of the
\* five collections, duplicates included, and stats.duplicates is the number
\* of 'duplicate' errors; two companies with the same id and nothing else
\* give one duplicate error, duplicates = 1 and totalEntities = 2.
C7_Totals ==
    Validated =>
        /\ report.stats.totalEntities =
               Len(data.entities.companies) + Len(data.entities.technologies)
               + Len(data.entities.modules) + Len(data.projects)
               + Len(data.integrations)
        /\ report.stats.duplicates = AllDuplicateErrors
        /\ ScenarioB(data) =>
               /\ AllDuplicateErrors = 1
               /\ Len(report.errors) = 1
               /\ report.stats.duplicates = 1
               /\ report.stats.totalEntities = 2

C7_Witness ==
    /\ Validated
    /\ ScenarioB(data)
    /\ report.stats.duplicates = 1
    /\ report.stats.totalEntities = 2

UnusedWarnings(c, id) ==
    CountWhere(report.warnings,
               LAMBDA w : w.type = "unused_entity" /\ w.entity = c /\ w.message = <<id>>)

\* some project lists the id in the field
Listed(d, field, id) == Listings(d.projects, field, id) > 0

\* some integration has the id as its source or as its target
IsIntegrationEnd(d, id) ==
    \E i \in DOMAIN d.integrations :
        d.integrations[i].source = id \/ d.integrations[i].target = id

\* C8: after validation, a technology id that no project lists under
\* technologies and that is neither source nor target of an integration has
\* one 'unused_entity' warning per technology entry carrying it; a technology
\* id that a project lists, or that is other than "system" and the source or
\* target of an integration, has none; and stats.unusedEntities has one
\* increment per warning.
C8_UnusedTechnologies ==
    Validated =>
        /\ \A id \in Ids :
               /\ (~Listed(data, "technologies", id) /\ ~IsIntegrationEnd(data, id)) =>
                      UnusedWarnings("technologies", id) =
                          Occurrences(data.entities.technologies, id)
               /\ (Listed(data, "technologies", id)
                       \/ (id # "system" /\ IsIntegrationEnd(data, id))) =>
                      UnusedWarnings("technologies", id) = 0
        /\ report.stats.unusedEntities = Len(report.warnings)

\* one technology used only as the source of an integration, another one
\* used by nothing
C8_Witness ==
    /\ Validated
    /\ \E i \in DOMAIN data.entities.technologies, j \in DOMAIN data.entities.technologies,
          g \in DOMAIN data.integrations :
           LET used == data.entities.technologies[i].id
               idle == data.entities.technologies[j].id
           IN  /\ used # "system"
               /\ data.integrations[g].source = used
               /\ ~Listed(data, "technologies", used)
               /\ ~Listed(data, "technologies", idle)
               /\ ~IsIntegrationEnd(data, idle)
               /\ UnusedWarnings("technologies", used) = 0
               /\ UnusedWarnings("technologies", idle) = 1

\* C9: after validation, a module id that no project lists under modules has
\* one 'unused_entity' warning per module entry carrying it, also when an
\* integration has it as source or target, and a module id that a project
\* lists has none.
C9_UnusedModules ==
    Validated =>
        \A id \in Ids :
            UnusedWarnings("modules", id) =
                IF Listed(data, "modules", id) THEN 0
                ELSE Occurrences(data.entities.modules, id)

\* a module referenced only as the source of an integration is reported
C9_Witness ==
    /\ Validated
    /\ \E i \in DOMAIN data.entities.modules, g \in DOMAIN data.integrations :
           LET id == data.entities.modules[i].id
           IN  /\ id # "system"
               /\ data.integrations[g].source = id
               /\ ~Listed(data, "modules", id)
               /\ UnusedWarnings("modules", id) = 1
               /\ MissingReferences = 0

\* C10: after validation, the 'unused_entity' warnings for a company id
\* number the active company entries carrying it when no project lists the id
\* under partners, and zero when one does: entries whose status is inactive
\* or mentioned never add a warning.
C10_UnusedCompanies ==
    Validated =>
        \A id \in Ids :
            UnusedWarnings("companies", id) =
                IF Listed(data, "partners", id) THEN 0
                ELSE CountWhere(data.entities.companies,
                                LAMBDA c : c.id = id /\ c.status = "active")

\* an inactive and an active company, neither a partner of any project: only
\* the active one is reported
C10_Witness ==
    /\ Validated
    /\ \E i \in DOMAIN data.entities.companies, j \in DOMAIN data.entities.companies :
           LET idle == data.entities.companies[i]
               live == data.entities.companies[j]
           IN  /\ idle.status = "inactive"
               /\ live.status = "active"
               /\ idle.id # live.id
               /\ ~Listed(data, "partners", idle.id)
               /\ ~Listed(data, "partners", live.id)
               /\ UnusedWarnings("companies", idle.id) = 0
               /\ UnusedWarnings("companies", live.id) = 1

Deduplicated == pc = "deduplicated"

\* C11: deduplicateData applied to the snapshot it returned returns that
\* snapshot again, in all five collections and every other part.
C11_DeduplicateIdempotent == [][Deduplicated => output' = output]_vars

\* a snapshot with an id three times in a collection, deduplicated twice
C11_Witness ==
    /\ pc = "deduplicatedTwice"
    /\ \E c \in Collections, id \in Ids :
           /\ Occurrences(CollectionOf(data, c), id) = 3
           /\ Occurrences(CollectionOf(output, c), id) = 1

\* the positions of a collection that hold the first entry of their id
FirstPositions(entities) ==
    {i \in DOMAIN entities : \A j \in 1..(i - 1) : entities[j].id # entities[i].id}

\* the n-th smallest of a set of positions
NthOf(K, n) == CHOOSE i \in K : Cardinality({k \in K : k < i}) = n - 1

\* C12: after deduplicateData, each of the five collections of the result is
\* the subsequence of the input collection at the first positions of its ids:
\* every id of the input collection occurs exactly once, with the first
\* entity that carries it, in input order.
C12_FirstOccurrences ==
    Deduplicated =>
        \A c \in Collections :
            LET in == CollectionOf(data, c)
                out == CollectionOf(output, c)
                K == FirstPositions(in)
            IN  /\ Len(out) = Cardinality(K)
                /\ \A n \in 1..Len(out) : out[n] = in[NthOf(K, n)]
                /\ \A id \in Ids :
                       Occurrences(out, id) = IF Occurrences(in, id) > 0 THEN 1 ELSE 0

\* three companies, the third repeating the id of the first with another
\* status: the first two are kept, in order
C12_Witness ==
    /\ Deduplicated
    /\ Len(data.entities.companies) = 3
    /\ data.entities.companies[1].id = data.entities.companies[3].id
    /\ data.entities.companies[1].id # data.entities.companies[2].id
    /\ data.entities.companies[1].status # data.entities.companies[3].status
    /\ output.entities.companies = <<data.entities.companies[1], data.entities.companies[2]>>

\* C13: after deduplicateData, every entity of the result is, field for field,
\* an entity of the same input collection (reference lists included, dangling
\* or not), the result has the parts of the input, and projectMetadata,
\* relationships and dataQuality are those of the input.
C13_ReferencesUntouched ==
    Deduplicated =>
        /\ \A c \in Collections :
               \A n \in DOMAIN CollectionOf(output, c) :
                   \E i \in DOMAIN CollectionOf(data, c) :
                       CollectionOf(output, c)[n] = CollectionOf(data, c)[i]
        /\ DOMAIN output = DOMAIN data
        /\ DOMAIN output.entities = DOMAIN data.entities
        /\ output.projectMetadata = data.projectMetadata
        /\ output.relationships = data.relationships
        /\ output.dataQuality = data.dataQuality

\* two projects with the same id, the first with a partner that is no
\* company: the first is kept with its dangling partner
C13_Witness ==
    /\ Deduplicated
    /\ Len(data.projects) = 2
    /\ data.projects[1].id = data.projects[2].id
    /\ Len(data.projects[1].partners) = 1
    /\ Absent(data.entities.companies, data.projects[1].partners[1])
    /\ output.projects = <<data.projects[1]>>
    /\ output.dataQuality = DataQuality

EmptySnapshot(d) == \A c \in Collections : CollectionOf(d, c) = <<>>

\* C15: the report of the snapshot whose five collections are empty has
\* isValid = true, no errors, no warnings, and all four counters at 0.
C15_EmptySnapshot ==
    (Validated /\ EmptySnapshot(data)) =>
        /\ report.isValid = TRUE
        /\ report.errors = <<>>
        /\ report.warnings = <<>>
        /\ report.stats = [totalEntities |-> 0, duplicates |-> 0,
                           brokenReferences |-> 0, unusedEntities |-> 0]

C15_Witness ==
    /\ Validated
    /\ EmptySnapshot(data)
    /\ report.isValid
    /\ report.stats.totalEntities = 0

\* the titles of the projects the hook holds, and the names of its skills
TitlesHeld == {lists.projects[i].title : i \in DOMAIN lists.projects}

NamesHeld == {lists.skills[i].name : i \in DOMAIN lists.skills}

\* how many projects the hook holds under the title, skills under the name
TitleCount(t) == CountWhere(lists.projects, LAMBDA p : p.title = t)

NameCount(n) == CountWhere(lists.skills, LAMBDA sk : sk.name = n)

\* how many warnings of the report are about the value in the collection
WarningsAbout(r, entityType, value) ==
    CountWhere(r.warnings, LAMBDA w : /\ w.type = "unused_entity"
                                      /\ w.entity = entityType
                                      /\ w.message[1] = value)

\* the report has one warning for each title and each name held more than
\* once, none for the others, and counts one duplicate for each warning
OneWarningPerDuplicatedValue(r) ==
    /\ \A t \in Titles : WarningsAbout(r, "projects", t) = IF TitleCount(t) > 1 THEN 1 ELSE 0
    /\ \A n \in Names : WarningsAbout(r, "skills", n) = IF NameCount(n) > 1 THEN 1 ELSE 0
    /\ Len(r.warnings) = Cardinality({t \in Titles : TitleCount(t) > 1})
                         + Cardinality({n \in Names : NameCount(n) > 1})
    /\ r.stats.duplicates = Len(r.warnings)
    /\ r.errors = <<>>

\* C16: runQualityCheck compares project titles and skill names as they are,
\* case-sensitively; for every distinct title or name held more than once it
\* emits exactly one warning and adds exactly 1 to stats.duplicates, however
\* many times the value occurs; a value held once emits nothing.
C16_OneWarningPerDuplicate ==
    [][RunQualityCheck => OneWarningPerDuplicatedValue(qualityReport'[1])]_vars

\* titles X, X and x, checked: one warning, one duplicate
C16_Witness ==
    /\ qualityReport # NoReport
    /\ TitleCount("X") = 2
    /\ TitleCount("x") = 1
    /\ qualityReport[1].stats.totalEntities
           = Len(lists.projects) + Len(lists.skills) + Len(lists.experiences)
    /\ WarningsAbout(qualityReport[1], "projects", "X") = 1
    /\ WarningsAbout(qualityReport[1], "projects", "x") = 0
    /\ qualityReport[1].stats.duplicates = 1

Clamp(x, low, high) == IF x < low THEN low ELSE IF x > high THEN high ELSE x

\* 100 - 10 * duplicates - 15 * brokenReferences - 2 * unusedEntities
RawScore(r) ==
    100 - 10 * r.stats.duplicates - 15 * r.stats.brokenReferences - 2 * r.stats.unusedEntities

\* C17: the score of the dashboard is clamp(100 - 10 * duplicates
\* - 15 * brokenReferences - 2 * unusedEntities, 0, 100) over the stats of the
\* current quality report, is 100 when there is no report, and so lies in
\* 0..100.
C17_ScoreClamped ==
    /\ stats.dataQualityScore \in 0..100
    /\ stats.dataQualityScore = IF qualityReport = NoReport THEN 100
                               ELSE Clamp(RawScore(qualityReport[1]), 0, 100)

\* a report whose deductions exceed 100: the score is 0
C17_Witness ==
    /\ qualityReport # NoReport
    /\ RawScore(qualityReport[1]) < 0
    /\ stats.dataQualityScore = 0

\* the identifier has been parsed
Parsed == idResult # NotParsed

\* the strings over [a-z0-9_-] of at least one character
WellFormed(str) ==
    str # <<>> /\ \A i \in DOMAIN str : str[i] \in {"a", "7", "_", "-"}

\* a string lowercased and without its leading and trailing blanks
Normalized(str) ==
    LET low == [i \in DOMAIN str |-> IF str[i] = "A" THEN "a" ELSE str[i]]
        inner == {i \in DOMAIN low : low[i] # " "}
    IN  IF inner = {} THEN <<>>
        ELSE LET first == CHOOSE i \in inner : \A j \in inner : i <= j
                 last == CHOOSE i \in inner : \A j \in inner : j <= i
             IN  SubSeq(low, first, last)

\* C18: an identifier is accepted if and only if its lowercased and trimmed
\* form is non-empty and consists of characters of [a-z0-9_-] only, and an
\* accepted identifier is output in that form.
C18_IdNormalizedThenChecked ==
    Parsed =>
        /\ idResult.success <=> WellFormed(Normalized(idInput))
        /\ idResult.success => idResult.data = Normalized(idInput)

\* no two entries of the list carry the same label
NoTwoAlike(kind, docs) ==
    \A i, j \in DOMAIN docs : labelOf(kind, docs[i]) = labelOf(kind, docs[j]) => i = j

\* C19: once deduplicateAllData has completed successfully, the admin data
\* holds no two projects with the same title and no two skills with the same
\* name.
C19_DuplicatesRemoved ==
    (returned.op = "deduplicateAllData" /\ returned.ok) =>
        /\ NoTwoAlike("projects", lists.projects)
        /\ NoTwoAlike("skills", lists.skills)

\* the list the hook holds shows the change the call asks for: the created
\* document (which the backend does not hold yet), the updated field, or no
\* entry of the deleted id
ShowsChange(c, docs) ==
    CASE c.op = "create" ->
            \E i \in DOMAIN docs : /\ labelOf(c.kind, docs[i]) = c.label
                                   /\ docs[i].id \notin idsOf(store[c.kind])
      [] c.op = "update" ->
            \A i \in DOMAIN docs : docs[i].id = c.id => labelOf(c.kind, docs[i]) = c.label
      [] c.op = "delete" ->
            \A i \in DOMAIN docs : docs[i].id # c.id

\* C20: while the backend write of a create, update or delete is awaited,
\* the list the hook holds already shows the change.
C20_OptimisticUpdate ==
    call.phase = "writing" => ShowsChange(call, lists[call.kind])

\* the report of the snapshot has an 'unused_entity' warning for the id in
\* the collection
ReportedUnused(d, c, id) ==
    CountWhere(validateDataQuality(d).warnings,
               LAMBDA w : w.type = "unused_entity" /\ w.entity = c /\ w.message = <<id>>) > 0

\* C21: optimizeData(data, true) returns a snapshot with no technology,
\* module or company that validateDataQuality reports as unused for data;
\* optimizeData(data, false) returns data unchanged.
C21_UnusedRemoved ==
    /\ pc = "optimizedRemoving" =>
           \A c \in {"technologies", "modules", "companies"}, id \in Ids :
               ReportedUnused(data, c, id) => Absent(CollectionOf(output, c), id)
    /\ pc = "optimizedKeeping" => output = data

\* the ids of a collection
IdsIn(d, c) == {CollectionOf(d, c)[i].id : i \in DOMAIN CollectionOf(d, c)}

\* C22: the report of a deduplicated snapshot has stats.duplicates = 0 and
\* its stats.brokenReferences is at most that of the report of the snapshot
\* itself; each collection of the deduplicated snapshot has the ids of the
\* snapshot's collection.
C22_DeduplicatedRevalidated ==
    [][(pc = "validatedDeduplicated" /\ pc' = "revalidated") =>
           /\ report'.stats.duplicates = 0
           /\ report'.stats.brokenReferences <= report.stats.brokenReferences
           /\ \A c \in Collections : IdsIn(output, c) = IdsIn(data, c)]_vars

\* a project twice under one id, each entry with a broken reference: two
\* broken references before, one after
C22_Witness ==
    /\ pc = "revalidated"
    /\ Len(data.projects) = 2
    /\ Len(output.projects) = 1
    /\ BrokenProjectReferences(data) = 2
    /\ report.stats.brokenReferences = 1
    /\ report.stats.duplicates = 0

\* C23: in a report of validateDataQuality, errors.length is stats.duplicates
\* + stats.brokenReferences, every error is of type 'duplicate' or
\* 'missing_reference', warnings.length is stats.unusedEntities and every
\* warning is of type 'unused_entity'.
C23_CountersAgree ==
    /\ Len(report.errors) = report.stats.duplicates + report.stats.brokenReferences
    /\ \A i \in DOMAIN report.errors :
           report.errors[i].type \in {"duplicate", "missing_reference"}
    /\ Len(report.warnings) = report.stats.unusedEntities
    /\ \A i \in DOMAIN report.warnings : report.warnings[i].type = "unused_entity"

\* a report with a duplicate, a broken reference and two warnings
C23_Witness ==
    /\ Validated
    /\ report.stats.duplicates = 1
    /\ report.stats.brokenReferences = 1
    /\ Len(report.errors) = 2
    /\ Len(report.warnings) = 2

\* how many documents the hook holds
HeldTotal == Len(lists.projects) + Len(lists.skills) + Len(lists.experiences)

\* the step is a call of deduplicateAllData
DeduplicateAllDataStep ==
    /\ returned' = [op |-> "deduplicateAllData", ok |-> TRUE, id |-> 0]
    /\ qualityReport' # NoReport
    /\ UNCHANGED <<lists, loads, call, isLoading, isRefreshing>>
    /\ returned' # returned \/ qualityReport' # qualityReport

\* C24: the quality report that a call of deduplicateAllData produces is the
\* report of the lists the hook holds at the call: stats.totalEntities is the
\* number of projects, skills and experiences held, and the duplicates are
\* those of the projects and skills held.
C24_ReportOfCurrentLists ==
    [][DeduplicateAllDataStep =>
           /\ qualityReport'[1].stats.totalEntities = HeldTotal
           /\ OneWarningPerDuplicatedValue(qualityReport'[1])]_vars

\* C25: a response of a load never replaces the backend's current projects
\* in the list by older ones, so that once all operations have completed the
\* list holds the backend's final contents; and isLoadingProjects is false
\* only when no load of the projects is in flight.
C25_LoadsInOrder ==
    [][/\ (lists.projects = store.projects /\ store'.projects = store.projects) =>
              lists'.projects = store.projects
       /\ ~isLoading'.projects => ~(\E l \in loads' : l.kind = "projects")]_vars

\* C27: a refreshData that has set isRefreshing ends with isRefreshing false
\* and the three isLoading flags false, whether its loads succeed or fail.
C27_RefreshTerminates ==
    isRefreshing ~> (~isRefreshing /\ \A k \in Kinds : ~isLoading[k])

\* a refresh that has ended after one of its loads failed
C27_Witness ==
    /\ ~isRefreshing
    /\ \A k \in Kinds : ~isLoading[k]
    /\ loads = {}
    /\ lastError = "Failed to load"

\* the step is the return of a call whose write failed
WriteFailedStep == call.phase = "writing" /\ call' = NoCall

\* the step is the return of a call whose write succeeded
WriteDoneStep == call.phase = "loading" /\ call' = NoCall

\* a failed write: null or false is returned, lastError is set, no reload is
\* started and the lists stay as they are
FailureHandled ==
    WriteFailedStep =>
        /\ returned' = [op |-> call.op, ok |-> FALSE, id |-> 0]
        /\ lastError' = "Failed to write"
        /\ loads' = loads
        /\ isLoading' = isLoading
        /\ lists' = lists
        /\ store' = store

\* the new id or true is returned, and only by a call whose write succeeded
SuccessReturned ==
    /\ WriteDoneStep => returned' = [op |-> call.op, ok |-> TRUE, id |-> call.id]
    /\ (returned'.ok /\ returned' # returned) => WriteDoneStep

\* the list shows what the call wrote
ShowsWritten(c, docs) ==
    CASE c.op = "create" -> \E i \in DOMAIN docs : docs[i] = makeDoc(c.kind, c.id, c.label)
      [] c.op = "update" -> \E i \in DOMAIN docs : docs[i] = makeDoc(c.kind, c.id, c.label)
      [] c.op = "delete" -> \A i \in DOMAIN docs : docs[i].id # c.id

\* the reload of the call has set the list to the backend's answer
Reloaded(l) ==
    /\ l.read
    /\ lists'[call.kind] = l.data
    /\ ShowsWritten(call, lists'[call.kind])
    /\ lastError' = "null"

\* the reload of the call has failed: the list is as before and lastError
\* holds the failure
ReloadFailed(l) ==
    /\ ~l.read
    /\ lists' = lists
    /\ lastError' = "Failed to load"

\* the load the call awaits
CallLoads == {l \in loads : l.owner = "call" /\ l.kind = call.kind}

\* C28 as stated: a failed write returns null or false, sets lastError,
\* starts no reload and leaves the lists unchanged; a successful call returns
\* the new id or true only after the list has been reloaded.
C28_ReturnsAfterReload ==
    [][/\ FailureHandled
       /\ SuccessReturned
       /\ WriteDoneStep => \E l \in CallLoads : l \notin loads' /\ Reloaded(l)]_vars

\* C28, amended: a failed write returns null or false, sets lastError, starts
\* no reload and leaves the lists unchanged; a successful call returns the new
\* id or true only after its reload has settled: the list has been reloaded,
\* or the reload has failed, the list is unchanged and lastError is set.
C28_ReturnsAfterReloadSettled ==
    [][/\ FailureHandled
       /\ SuccessReturned
       /\ WriteDoneStep =>
              \E l \in CallLoads : l \notin loads' /\ (Reloaded(l) \/ ReloadFailed(l))]_vars

\* a create whose write failed: null returned, lastError set, lists as loaded
C28_Witness ==
    /\ returned = [op |-> "create", ok |-> FALSE, id |-> 0]
    /\ lastError = "Failed to write"
    /\ lists = store
    /\ loads = {}
    /\ Len(lists.projects) > 0

\* how many documents of the collection carry the title
Seeded(title) == CountWhere(firestore, LAMBDA d : d.title = title)

Lowered(str) == Normalized(str)

\* the key of a project: its normalized title and its normalized category
PairKey(p) == <<Lowered(p.title), Lowered(p.category)>>

\* the entries of the snapshot with a title, a description and a category
Complete(p) == Len(p.title) > 0 /\ Len(p.description) > 0 /\ Len(p.category) > 0

\* the entry is the first complete entry of its key in the snapshot
FirstOfKey(i) ==
    /\ Complete(snapshot[i])
    /\ \A j \in 1..(i - 1) :
           Complete(snapshot[j]) => PairKey(snapshot[j]) # PairKey(snapshot[i])

Priority(p) == IF "priority" \in DOMAIN p THEN p.priority ELSE 0

\* only complete entries are held
OnlyComplete == \A i \in DOMAIN siteProjects : Complete(siteProjects[i])

\* the entries held are the first entries of the keys of the snapshot, each
\* once
FirstOfEachKey ==
    /\ \A i \in DOMAIN snapshot :
           CountWhere(siteProjects, LAMBDA p : p = snapshot[i]) = IF FirstOfKey(i) THEN 1 ELSE 0
    /\ \A i \in DOMAIN siteProjects : \E j \in DOMAIN snapshot : siteProjects[i] = snapshot[j]

\* featured entries first, and by non-increasing priority within each group
FeaturedThenPriority ==
    \A i, j \in DOMAIN siteProjects :
        i < j =>
            /\ siteProjects[j].featured => siteProjects[i].featured
            /\ siteProjects[i].featured = siteProjects[j].featured =>
                   Priority(siteProjects[i]) >= Priority(siteProjects[j])

\* C29: after every delivered snapshot the projects held are complete, no
\* two of them have the same normalized title and category, the first
\* delivered entry of each such key is the one held, and featured entries
\* come first, in non-increasing priority within each group, a missing
\* priority counting as 0.
C29_SnapshotProcessed ==
    ~loading =>
        /\ OnlyComplete
        /\ FirstOfEachKey
        /\ FeaturedThenPriority

====
